---- MODULE Spec2Model ----
(***************************************************************************)
(* VnetScanner: the HTTP-triggered function main() of                      *)
(* src/VnetScanner/__init__.py.  One invocation reads its configuration,   *)
(* builds the clients, resolves (or creates) the table, lists the virtual  *)
(* networks, lists each network's subnets and writes one entity per subnet *)
(* with update_entity, falling back to create_entity when the update       *)
(* reports that the entity does not exist.                                 *)
(*                                                                         *)
(* Every blocking call of main is one action.  Strings the code takes      *)
(* apart are sequences of tokens: a resource identifier is the sequence of *)
(* its "/" characters and of the maximal "/"-free runs between them, an    *)
(* exception message the sequence of its phrases.  A Python Optional is a  *)
(* sequence of length 0 (None) or 1.                                       *)
(***************************************************************************)
EXTENDS Integers, Sequences, FiniteSets, TLC

VARIABLES
    overlapping,          \* may a trigger fire while an invocation is running
    environ,              \* os.environ: the set of variables that are set
    tableExists,          \* the table service: does the table exist
    store,                \* the table: key <<PartitionKey, RowKey>> -> row
    clock,                \* datetime.utcnow(), an index of Instants
    faults,               \* transient failures injected so far
    listing,              \* listing[r]: what the network API shows invocation r
    pc,                   \* pc[r]: where invocation r of main stands
    vi,                   \* vi[r]: position of `for vnet in vnets`
    si,                   \* si[r]: position of `for subnet in subnets`
    resource_group_name,  \* the local of that name
    entity,               \* the local of that name, Optional
    status,               \* status_code of the response returned, 0: none yet
    calls,                \* calls[r]: the client calls issued, in order
    errors,               \* errors[r]: the logging.error records, in order
    storeAtStart,         \* the table as invocation r found it
    storeAtEnd,           \* the table as invocation r left it
    written               \* written[r]: key -> the entity invocation r last wrote there

vars == <<overlapping, environ, tableExists, store, clock, faults, listing, pc, vi, si,
          resource_group_name, entity, status, calls, errors,
          storeAtStart, storeAtEnd, written>>

-----------------------------------------------------------------------------
(* Bounds *)

\* Transient failures (transport, authorization) injected in one behaviour.
MaxFaults == 1

\* The invocations of main.
Runs == {1, 2}

-----------------------------------------------------------------------------
(* Python values *)

None == <<>>
Some(x) == <<x>>

\* str.split("/") on a tokenised string: the list of segments, each segment
\* the tokens between two separators.
RECURSIVE SplitFrom(_, _, _)
SplitFrom(s, i, cur) ==
    IF i > Len(s) THEN <<cur>>
    ELSE IF s[i] = "/" THEN <<cur>> \o SplitFrom(s, i + 1, <<>>)
    ELSE SplitFrom(s, i + 1, Append(cur, s[i]))

split(s) == SplitFrom(s, 1, <<>>)

\* A segment as a string: identifiers are tokenised in maximal runs, so a
\* segment is empty or one token.
SegStr(seg) == IF seg = <<>> THEN "" ELSE seg[1]

\* `sub in str(e)`: the message is tokenised so that the phrases searched for
\* are whole tokens.
Contains(msg, sub) == \E i \in 1..Len(msg) : msg[i] = sub

-----------------------------------------------------------------------------
(* The environment: configuration, source listings, exceptions *)

ConfigVars == {"AZURE_SUBSCRIPTION_ID", "STORAGE_ACCOUNT_NAME", "STORAGE_TABLE_NAME"}

VnetId(rg, vnet) ==
    <<"/", "subscriptions", "/", "abc", "/", "resourceGroups", "/", rg,
      "/", "providers", "/", "Microsoft.Network", "/", "virtualNetworks", "/", vnet>>

SubnetId(vnetId, subnet) == vnetId \o <<"/", "subnets", "/", subnet>>

\* An identifier cut short: it has no fifth segment.
ShortId == <<"/", "subscriptions", "/", "abc">>

\* An identifier without the resourceGroups/{rg} pair, long enough to index.
NoGroupId(vnet) ==
    <<"/", "subscriptions", "/", "abc", "/", "providers", "/", "Microsoft.Network",
      "/", "virtualNetworks", "/", vnet>>

Subnet(vnetId, name, prefix) ==
    [name |-> name, id |-> SubnetId(vnetId, name), address_prefix |-> prefix]

Vnet(name, id, location, space, subnets) ==
    [name |-> name, id |-> id, location |-> location,
     address_space |-> space, subnets |-> subnets]

Vnet1 ==
    LET id == VnetId("rg1", "vnet1") IN
    Vnet("vnet1", id, "westeurope",
         Some([address_prefixes |-> Some(<<"10.1.0.0/16", "10.9.0.0/16">>)]),
         <<Subnet(id, "default", "10.1.0.0/24"), Subnet(id, "apps", "10.1.1.0/24")>>)

\* A network that declares no address space.
Vnet2 ==
    LET id == VnetId("rg2", "vnet2") IN
    Vnet("vnet2", id, "northeurope", None,
         <<Subnet(id, "default", "10.2.0.0/24")>>)

\* A network whose address space has an empty prefix list.
Vnet3 ==
    LET id == VnetId("rg1", "vnet3") IN
    Vnet("vnet3", id, "westeurope", Some([address_prefixes |-> Some(<<>>)]),
         <<Subnet(id, "db", "10.3.0.0/24")>>)

VnetShort ==
    Vnet("vnetshort", ShortId, "westeurope",
         Some([address_prefixes |-> Some(<<"10.4.0.0/16">>)]),
         <<Subnet(ShortId, "default", "10.4.0.0/24")>>)

VnetNoGroup ==
    LET id == NoGroupId("vnetnogroup") IN
    Vnet("vnetnogroup", id, "westeurope",
         Some([address_prefixes |-> Some(<<"10.5.0.0/16">>)]),
         <<Subnet(id, "default", "10.5.0.0/24")>>)

\* The listings an invocation may be shown.
Listings ==
    { <<>>,
      <<Vnet1, Vnet2, Vnet3>>,
      <<Vnet1, VnetShort, Vnet3>>,
      <<VnetNoGroup, Vnet2>> }

\* The listings shown to overlapping invocations: both see the same one.
OverlapListings ==
    { <<Vnet1>>,
      <<Vnet2, Vnet3>> }

\* Exceptions, by their str().
EntityNotFound ==
    { <<"The specified resource does not exist.", "ErrorCode:", "ResourceNotFound">>,
      <<"The specified entity does not exist">> }
EntityAlreadyExists ==
    <<"The specified entity already exists.", "ErrorCode:", "EntityAlreadyExists">>
TableAlreadyExists ==
    <<"The table specified already exists.", "ErrorCode:", "TableAlreadyExists">>
Transient == <<"This request is not authorized to perform this operation.",
               "ErrorCode:", "AuthorizationFailure">>
IndexError == <<"list index out of range">>

\* datetime.isoformat(): the instants of the clock, as the strings they print as.
Instants ==
    <<"2024-01-01T00:00:01", "2024-01-01T00:00:02", "2024-01-01T00:00:03",
      "2024-01-01T00:00:04", "2024-01-01T00:00:05", "2024-01-01T00:00:06",
      "2024-01-01T00:00:07", "2024-01-01T00:00:08">>

isoformat(t) == Instants[t]

\* Rows found in the table before the first invocation: none, or one row
\* left by an earlier writer at the key of vnet1/default.
StaleRow ==
    [PartitionKey |-> "vnet1", RowKey |-> "default",
     addressPrefix |-> "10.1.9.0/24", owner |-> "ops"]

InitialStores ==
    { <<>>, [k \in {<<"vnet1", "default">>} |-> StaleRow] }

-----------------------------------------------------------------------------
(* Pure parts of main *)

\* Line 59: vnet.id.split('/')[4].  Python indexes from 0.
HasResourceGroupSegment(id) == Len(split(id)) >= 5
ResourceGroupOf(id) == SegStr(split(id)[5])

\* Line 81 as it would read if a missing address space were stored as the text
\* of Python's None.
VnetAddressSpaceAsNone(vnet) ==
    IF /\ vnet.address_space # None
       /\ vnet.address_space[1].address_prefixes # None
       /\ vnet.address_space[1].address_prefixes[1] # <<>>
    THEN vnet.address_space[1].address_prefixes[1][1]
    ELSE "None"

\* Line 81.
VnetAddressSpace(vnet) ==
    IF /\ vnet.address_space # None
       /\ vnet.address_space[1].address_prefixes # None
       /\ vnet.address_space[1].address_prefixes[1] # <<>>
    THEN vnet.address_space[1].address_prefixes[1][1]
    ELSE ""

\* Lines 70-83 as they would read if the row key carried the time of the scan.
EntityKeyedByTime(vnet, subnet, rg, now) ==
    [PartitionKey |-> vnet.name,
     RowKey |-> isoformat(now),
     vnetName |-> vnet.name,
     subnetName |-> subnet.name,
     addressPrefix |-> subnet.address_prefix,
     resourceGroup |-> rg,
     location |-> vnet.location,
     timestamp |-> isoformat(now),
     vnetId |-> vnet.id,
     subnetId |-> subnet.id,
     vnetAddressSpace |-> VnetAddressSpace(vnet),
     subnetAddressSpace |-> subnet.address_prefix]

\* Lines 70-83.
Entity(vnet, subnet, rg, now) ==
    [PartitionKey |-> vnet.name,
     RowKey |-> subnet.name,
     vnetName |-> vnet.name,
     subnetName |-> subnet.name,
     addressPrefix |-> subnet.address_prefix,
     resourceGroup |-> rg,
     location |-> vnet.location,
     timestamp |-> isoformat(now),
     vnetId |-> vnet.id,
     subnetId |-> subnet.id,
     vnetAddressSpace |-> VnetAddressSpace(vnet),
     subnetAddressSpace |-> subnet.address_prefix]

KeyOf(e) == <<e.PartitionKey, e.RowKey>>

\* Line 94 as it would read if every exception of the update led to the insert.
IsNotFoundErrorAlways(e) == TRUE

\* Line 94.
IsNotFoundError(e) ==
    \/ Contains(e, "ResourceNotFound")
    \/ Contains(e, "The specified entity does not exist")

\* Line 90, on a key that exists: update_entity is called without a mode, so
\* the entity's properties are written over the stored row's.
UpdatedRow(row, e) ==
    [a \in DOMAIN row \cup DOMAIN e |-> IF a \in DOMAIN e THEN e[a] ELSE row[a]]

\* A write that would replace the rows of the key's partition by the one row.
PutReplacingPartition(tbl, k, row) ==
    [x \in {y \in DOMAIN tbl : y[1] # k[1]} \cup {k} |-> IF x = k THEN row ELSE tbl[x]]

\* Lines 90 and 96: the table with the row at key k written, every other row kept.
Put(tbl, k, row) ==
    [x \in DOMAIN tbl \cup {k} |-> IF x = k THEN row ELSE tbl[x]]

-----------------------------------------------------------------------------
(* State *)

Init ==
    /\ overlapping = FALSE
    /\ environ \in {ConfigVars} \cup {ConfigVars \ {v} : v \in ConfigVars}
    /\ tableExists \in BOOLEAN
    /\ store \in InitialStores
    /\ clock = 1
    /\ faults = 0
    /\ listing \in [Runs -> Listings]
    /\ pc = [r \in Runs |-> "start"]
    /\ vi = [r \in Runs |-> 0]
    /\ si = [r \in Runs |-> 0]
    /\ resource_group_name = [r \in Runs |-> None]
    /\ entity = [r \in Runs |-> None]
    /\ status = [r \in Runs |-> 0]
    /\ calls = [r \in Runs |-> <<>>]
    /\ errors = [r \in Runs |-> <<>>]
    /\ storeAtStart = [r \in Runs |-> None]
    /\ storeAtEnd = [r \in Runs |-> None]
    /\ written = [r \in Runs |-> <<>>]

Call(op, arg, res) == [op |-> op, arg |-> arg, res |-> res]

CanFail == faults < MaxFaults

CurVnet(r) == listing[r][vi[r]]

\* Lines 102-106.
Return200(r) ==
    /\ pc' = [pc EXCEPT ![r] = "done"]
    /\ status' = [status EXCEPT ![r] = 200]
    /\ storeAtEnd' = [storeAtEnd EXCEPT ![r] = Some(store)]
    /\ errors' = errors

\* Lines 108-114: the outer handler.
Return500(r, e) ==
    /\ pc' = [pc EXCEPT ![r] = "done"]
    /\ status' = [status EXCEPT ![r] = 500]
    /\ errors' = [errors EXCEPT ![r] = Append(@, [line |-> 110, msg |-> e, key |-> None])]
    /\ storeAtEnd' = [storeAtEnd EXCEPT ![r] = Some(store)]

-----------------------------------------------------------------------------
(* Actions *)

Ended(r) == pc[r] \in {"done", "raised"}

\* The trigger has fired for invocation r: one trigger after the other, unless
\* triggers overlap.
Triggered(r) == overlapping \/ \A q \in Runs : q < r => Ended(q)

\* Lines 13-15: os.environ[...] outside the try block.
ReadConfig(r) ==
    /\ Triggered(r)
    /\ pc[r] = "start"
    /\ pc' = [pc EXCEPT ![r] = IF ConfigVars \subseteq environ THEN "init" ELSE "raised"]
    /\ storeAtStart' = [storeAtStart EXCEPT ![r] = Some(store)]
    /\ storeAtEnd' = [storeAtEnd EXCEPT ![r] =
                          IF ConfigVars \subseteq environ THEN @ ELSE Some(store)]
    /\ UNCHANGED <<written, overlapping, environ, tableExists, store, clock, faults, listing, vi, si,
                   resource_group_name, entity, status, calls, errors>>

\* Lines 21-38: credential and clients.
InitClients(r) ==
    /\ Triggered(r)
    /\ pc[r] = "init"
    /\ \/ /\ pc' = [pc EXCEPT ![r] = "get_table"]
          /\ UNCHANGED <<faults, status, errors, storeAtEnd>>
       \/ /\ CanFail
          /\ faults' = faults + 1
          /\ Return500(r, Transient)
    /\ UNCHANGED <<written, overlapping, environ, tableExists, store, clock, listing, vi, si,
                   resource_group_name, entity, calls, storeAtStart>>

\* Lines 42-46: table_service.get_table_client(table_name).
GetTableClient(r) ==
    /\ Triggered(r)
    /\ pc[r] = "get_table"
    /\ \/ /\ tableExists
          /\ pc' = [pc EXCEPT ![r] = "list_all"]
          /\ calls' = [calls EXCEPT ![r] = Append(@, Call("get_table_client", <<>>, "ok"))]
          /\ faults' = faults
       \/ /\ ~tableExists
          /\ pc' = [pc EXCEPT ![r] = "create_table"]
          /\ calls' = [calls EXCEPT ![r] =
                          Append(@, Call("get_table_client", <<>>, "not_found"))]
          /\ faults' = faults
       \/ /\ CanFail
          /\ faults' = faults + 1
          /\ pc' = [pc EXCEPT ![r] = "create_table"]
          /\ calls' = [calls EXCEPT ![r] = Append(@, Call("get_table_client", <<>>, "error"))]
    /\ UNCHANGED <<written, overlapping, environ, tableExists, store, clock, listing, vi, si,
                   resource_group_name, entity, status, errors, storeAtStart, storeAtEnd>>

\* The exceptions create_table can raise now.
CreateTableErrors ==
    (IF tableExists THEN {TableAlreadyExists} ELSE {})
        \cup (IF CanFail THEN {Transient} ELSE {})

\* Lines 47-48: table_service.create_table(table_name), in the inner handler.
CreateTable(r) ==
    /\ Triggered(r)
    /\ pc[r] = "create_table"
    /\ \/ /\ ~tableExists
          /\ tableExists' = TRUE
          /\ pc' = [pc EXCEPT ![r] = "list_all"]
          /\ calls' = [calls EXCEPT ![r] = Append(@, Call("create_table", <<>>, "ok"))]
          /\ UNCHANGED <<faults, status, errors, storeAtEnd>>
       \/ \E e \in CreateTableErrors :
              /\ faults' = IF e = Transient THEN faults + 1 ELSE faults
              /\ calls' = [calls EXCEPT ![r] =
                              Append(@, Call("create_table", <<>>,
                                  IF e = Transient THEN "error" ELSE "exists"))]
              /\ tableExists' = tableExists
              /\ Return500(r, e)
    /\ UNCHANGED <<written, overlapping, environ, store, clock, listing, vi, si,
                   resource_group_name, entity, storeAtStart>>

\* Lines 51-52 as they would run if a failed listing were taken for an empty one.
ListAllSwallowed(r) ==
    /\ Triggered(r)
    /\ pc[r] = "list_all"
    /\ \/ /\ calls' = [calls EXCEPT ![r] = Append(@, Call("list_all", <<>>, "ok"))]
          /\ faults' = faults
       \/ /\ CanFail
          /\ faults' = faults + 1
          /\ calls' = [calls EXCEPT ![r] = Append(@, Call("list_all", <<>>, "error"))]
    /\ pc' = [pc EXCEPT ![r] = "for_vnet"]
    /\ UNCHANGED <<written, overlapping, environ, tableExists, store, clock, listing, vi, si,
                   resource_group_name, entity, status, errors, storeAtStart, storeAtEnd>>

\* Lines 51-52: network_client.virtual_networks.list_all().
ListAll(r) ==
    /\ Triggered(r)
    /\ pc[r] = "list_all"
    /\ \/ /\ pc' = [pc EXCEPT ![r] = "for_vnet"]
          /\ calls' = [calls EXCEPT ![r] = Append(@, Call("list_all", <<>>, "ok"))]
          /\ UNCHANGED <<faults, status, errors, storeAtEnd>>
       \/ /\ CanFail
          /\ faults' = faults + 1
          /\ calls' = [calls EXCEPT ![r] = Append(@, Call("list_all", <<>>, "error"))]
          /\ Return500(r, Transient)
    /\ UNCHANGED <<written, overlapping, environ, tableExists, store, clock, listing, vi, si,
                   resource_group_name, entity, storeAtStart>>

\* Lines 55-59 and 102-106 as they would run if a listing without networks
\* were reported as an error.
ForVnetEmptyIsError(r) ==
    /\ Triggered(r)
    /\ pc[r] = "for_vnet"
    /\ IF vi[r] < Len(listing[r])
       THEN LET vnet == listing[r][vi[r] + 1] IN
            /\ vi' = [vi EXCEPT ![r] = @ + 1]
            /\ si' = [si EXCEPT ![r] = 0]
            /\ IF HasResourceGroupSegment(vnet.id)
               THEN /\ resource_group_name' =
                           [resource_group_name EXCEPT ![r] = Some(ResourceGroupOf(vnet.id))]
                    /\ pc' = [pc EXCEPT ![r] = "list_subnets"]
                    /\ UNCHANGED <<status, errors, storeAtEnd>>
               ELSE /\ resource_group_name' = resource_group_name
                    /\ Return500(r, IndexError)
       ELSE /\ IF listing[r] = <<>>
               THEN Return500(r, <<"No virtual networks found">>)
               ELSE Return200(r)
            /\ UNCHANGED <<vi, si, resource_group_name>>
    /\ UNCHANGED <<written, overlapping, environ, tableExists, store, clock, faults, listing,
                   entity, calls, storeAtStart>>

\* Lines 55-59: the next network and its resource group; lines 102-106 when
\* the listing is exhausted.
ForVnet(r) ==
    /\ Triggered(r)
    /\ pc[r] = "for_vnet"
    /\ IF vi[r] < Len(listing[r])
       THEN LET vnet == listing[r][vi[r] + 1] IN
            /\ vi' = [vi EXCEPT ![r] = @ + 1]
            /\ si' = [si EXCEPT ![r] = 0]
            /\ IF HasResourceGroupSegment(vnet.id)
               THEN /\ resource_group_name' =
                           [resource_group_name EXCEPT ![r] = Some(ResourceGroupOf(vnet.id))]
                    /\ pc' = [pc EXCEPT ![r] = "list_subnets"]
                    /\ UNCHANGED <<status, errors, storeAtEnd>>
               ELSE /\ resource_group_name' = resource_group_name
                    /\ Return500(r, IndexError)
       ELSE /\ Return200(r)
            /\ UNCHANGED <<vi, si, resource_group_name>>
    /\ UNCHANGED <<written, overlapping, environ, tableExists, store, clock, faults, listing,
                   entity, calls, storeAtStart>>

\* Lines 62-63: network_client.subnets.list(resource_group_name, vnet.name).
ListSubnets(r) ==
    /\ Triggered(r)
    /\ pc[r] = "list_subnets"
    /\ LET arg == <<resource_group_name[r][1], CurVnet(r).name>> IN
       \/ /\ pc' = [pc EXCEPT ![r] = "for_subnet"]
          /\ calls' = [calls EXCEPT ![r] = Append(@, Call("subnets.list", arg, "ok"))]
          /\ UNCHANGED <<faults, status, errors, storeAtEnd>>
       \/ /\ CanFail
          /\ faults' = faults + 1
          /\ calls' = [calls EXCEPT ![r] = Append(@, Call("subnets.list", arg, "error"))]
          /\ Return500(r, Transient)
    /\ UNCHANGED <<written, overlapping, environ, tableExists, store, clock, listing, vi, si,
                   resource_group_name, entity, storeAtStart>>

\* Lines 66-85 as they would run if the subnets of a network were taken from
\* the last to the first.
ForSubnetReversed(r) ==
    /\ Triggered(r)
    /\ pc[r] = "for_subnet"
    /\ IF si[r] < Len(CurVnet(r).subnets)
       THEN /\ clock <= Len(Instants)
            /\ si' = [si EXCEPT ![r] = @ + 1]
            /\ entity' = [entity EXCEPT ![r] =
                   Some(Entity(CurVnet(r),
                               CurVnet(r).subnets[Len(CurVnet(r).subnets) - si[r]],
                               resource_group_name[r][1], clock))]
            /\ clock' = clock + 1
            /\ pc' = [pc EXCEPT ![r] = "update"]
       ELSE /\ pc' = [pc EXCEPT ![r] = "for_vnet"]
            /\ UNCHANGED <<si, entity, clock>>
    /\ UNCHANGED <<written, overlapping, environ, tableExists, store, faults, listing, vi,
                   resource_group_name, status, calls, errors, storeAtStart, storeAtEnd>>

\* Lines 66-85: the next subnet and its entity.
ForSubnet(r) ==
    /\ Triggered(r)
    /\ pc[r] = "for_subnet"
    /\ IF si[r] < Len(CurVnet(r).subnets)
       THEN /\ clock <= Len(Instants)
            /\ si' = [si EXCEPT ![r] = @ + 1]
            /\ entity' = [entity EXCEPT ![r] =
                   Some(Entity(CurVnet(r), CurVnet(r).subnets[si[r] + 1],
                               resource_group_name[r][1], clock))]
            /\ clock' = clock + 1
            /\ pc' = [pc EXCEPT ![r] = "update"]
       ELSE /\ pc' = [pc EXCEPT ![r] = "for_vnet"]
            /\ UNCHANGED <<si, entity, clock>>
    /\ UNCHANGED <<written, overlapping, environ, tableExists, store, faults, listing, vi,
                   resource_group_name, status, calls, errors, storeAtStart, storeAtEnd>>

\* The exceptions update_entity can raise now.
UpdateErrors(k) ==
    (IF k \in DOMAIN store THEN {} ELSE EntityNotFound)
        \cup (IF CanFail THEN {Transient} ELSE {})

\* Lines 87-100 as they would run if the handler re-raised what is not a
\* not-found error.
UpdateEntityEscalating(r) ==
    /\ Triggered(r)
    /\ pc[r] = "update"
    /\ LET e == entity[r][1]
           k == KeyOf(e) IN
       \/ /\ k \in DOMAIN store
          /\ store' = Put(store, k, UpdatedRow(store[k], e))
          /\ written' = [written EXCEPT ![r] = Put(@, k, e)]
          /\ calls' = [calls EXCEPT ![r] = Append(@, Call("update_entity", k, "ok"))]
          /\ pc' = [pc EXCEPT ![r] = "for_subnet"]
          /\ UNCHANGED <<faults, errors, status, storeAtEnd>>
       \/ \E x \in UpdateErrors(k) :
              /\ faults' = IF x = Transient THEN faults + 1 ELSE faults
              /\ store' = store
              /\ written' = written
              /\ calls' = [calls EXCEPT ![r] =
                     Append(@, Call("update_entity", k,
                         IF x \in EntityNotFound THEN "not_found" ELSE "error"))]
              /\ IF IsNotFoundError(x)
                 THEN /\ pc' = [pc EXCEPT ![r] = "create"]
                      /\ UNCHANGED <<errors, status, storeAtEnd>>
                 ELSE Return500(r, x)
    /\ UNCHANGED <<overlapping, environ, tableExists, clock, listing, vi, si,
                   resource_group_name, entity, storeAtStart>>

\* Lines 87-100 as they would run if an update that failed for another reason
\* than a missing row were issued again.
UpdateEntityRetrying(r) ==
    /\ Triggered(r)
    /\ pc[r] = "update"
    /\ LET e == entity[r][1]
           k == KeyOf(e) IN
       \/ /\ k \in DOMAIN store
          /\ store' = Put(store, k, UpdatedRow(store[k], e))
          /\ written' = [written EXCEPT ![r] = Put(@, k, e)]
          /\ calls' = [calls EXCEPT ![r] = Append(@, Call("update_entity", k, "ok"))]
          /\ pc' = [pc EXCEPT ![r] = "for_subnet"]
          /\ UNCHANGED <<faults, errors>>
       \/ \E x \in UpdateErrors(k) :
              /\ faults' = IF x = Transient THEN faults + 1 ELSE faults
              /\ store' = store
              /\ written' = written
              /\ calls' = [calls EXCEPT ![r] =
                     Append(@, Call("update_entity", k,
                         IF x \in EntityNotFound THEN "not_found" ELSE "error"))]
              /\ IF IsNotFoundError(x)
                 THEN /\ pc' = [pc EXCEPT ![r] = "create"]
                      /\ errors' = errors
                 ELSE /\ pc' = [pc EXCEPT ![r] = "update"]
                      /\ errors' = [errors EXCEPT ![r] =
                                       Append(@, [line |-> 100, msg |-> x, key |-> k])]
    /\ UNCHANGED <<overlapping, environ, tableExists, clock, listing, vi, si,
                   resource_group_name, entity, status, storeAtStart, storeAtEnd>>

\* Lines 87-100 up to the fallback: update_entity and the handler's branch.
UpdateEntity(r) ==
    /\ Triggered(r)
    /\ pc[r] = "update"
    /\ LET e == entity[r][1]
           k == KeyOf(e) IN
       \/ /\ k \in DOMAIN store
          /\ store' = Put(store, k, UpdatedRow(store[k], e))
          /\ written' = [written EXCEPT ![r] = Put(@, k, e)]
          /\ calls' = [calls EXCEPT ![r] = Append(@, Call("update_entity", k, "ok"))]
          /\ pc' = [pc EXCEPT ![r] = "for_subnet"]
          /\ UNCHANGED <<faults, errors>>
       \/ \E x \in UpdateErrors(k) :
              /\ faults' = IF x = Transient THEN faults + 1 ELSE faults
              /\ store' = store
              /\ written' = written
              /\ calls' = [calls EXCEPT ![r] =
                     Append(@, Call("update_entity", k,
                         IF x \in EntityNotFound THEN "not_found" ELSE "error"))]
              /\ IF IsNotFoundError(x)
                 THEN /\ pc' = [pc EXCEPT ![r] = "create"]
                      /\ errors' = errors
                 ELSE /\ pc' = [pc EXCEPT ![r] = "for_subnet"]
                      /\ errors' = [errors EXCEPT ![r] =
                                       Append(@, [line |-> 100, msg |-> x, key |-> k])]
    /\ UNCHANGED <<overlapping, environ, tableExists, clock, listing, vi, si,
                   resource_group_name, entity, status, storeAtStart, storeAtEnd>>

\* The exceptions create_entity can raise now.
CreateErrors(k) ==
    (IF k \in DOMAIN store THEN {EntityAlreadyExists} ELSE {})
        \cup (IF CanFail THEN {Transient} ELSE {})

\* Lines 96-97 as they would run if a failed insert undid the rows written
\* earlier in the run.
CreateEntityRollingBack(r) ==
    /\ Triggered(r)
    /\ pc[r] = "create"
    /\ LET e == entity[r][1]
           k == KeyOf(e) IN
       \/ /\ k \notin DOMAIN store
          /\ store' = Put(store, k, e)
          /\ written' = [written EXCEPT ![r] = Put(@, k, e)]
          /\ calls' = [calls EXCEPT ![r] = Append(@, Call("create_entity", k, "ok"))]
          /\ pc' = [pc EXCEPT ![r] = "for_subnet"]
          /\ UNCHANGED <<faults, status, errors, storeAtEnd>>
       \/ \E x \in CreateErrors(k) :
              /\ faults' = IF x = Transient THEN faults + 1 ELSE faults
              /\ store' = storeAtStart[r][1]
              /\ written' = written
              /\ calls' = [calls EXCEPT ![r] =
                              Append(@, Call("create_entity", k,
                                  IF x = Transient THEN "error" ELSE "exists"))]
              /\ pc' = [pc EXCEPT ![r] = "done"]
              /\ status' = [status EXCEPT ![r] = 500]
              /\ errors' = [errors EXCEPT ![r] =
                               Append(@, [line |-> 110, msg |-> x, key |-> None])]
              /\ storeAtEnd' = [storeAtEnd EXCEPT ![r] = Some(storeAtStart[r][1])]
    /\ UNCHANGED <<overlapping, environ, tableExists, clock, listing, vi, si,
                   resource_group_name, entity, storeAtStart>>

\* Lines 96-97: create_entity, inside the handler of the update's exception:
\* what it raises reaches the outer handler.
CreateEntity(r) ==
    /\ Triggered(r)
    /\ pc[r] = "create"
    /\ LET e == entity[r][1]
           k == KeyOf(e) IN
       \/ /\ k \notin DOMAIN store
          /\ store' = Put(store, k, e)
          /\ written' = [written EXCEPT ![r] = Put(@, k, e)]
          /\ calls' = [calls EXCEPT ![r] = Append(@, Call("create_entity", k, "ok"))]
          /\ pc' = [pc EXCEPT ![r] = "for_subnet"]
          /\ UNCHANGED <<faults, status, errors, storeAtEnd>>
       \/ \E x \in CreateErrors(k) :
              /\ faults' = IF x = Transient THEN faults + 1 ELSE faults
              /\ store' = store
              /\ written' = written
              /\ calls' = [calls EXCEPT ![r] =
                              Append(@, Call("create_entity", k,
                                  IF x = Transient THEN "error" ELSE "exists"))]
              /\ Return500(r, x)
    /\ UNCHANGED <<overlapping, environ, tableExists, clock, listing, vi, si,
                   resource_group_name, entity, storeAtStart>>

Step(r) ==
    \/ ReadConfig(r)
    \/ InitClients(r)
    \/ GetTableClient(r)
    \/ CreateTable(r)
    \/ ListAll(r)
    \/ ForVnet(r)
    \/ ListSubnets(r)
    \/ ForSubnet(r)
    \/ UpdateEntity(r)
    \/ CreateEntity(r)

Next == \E r \in Runs : Step(r)

Spec == Init /\ [][Next]_vars

\* Overlapping triggers over one source listing: the invocations interleave
\* call by call.
InitOverlap ==
    /\ overlapping = TRUE
    /\ environ = ConfigVars
    /\ tableExists \in BOOLEAN
    /\ store \in InitialStores
    /\ clock = 1
    /\ faults = 0
    /\ listing \in {[r \in Runs |-> l] : l \in OverlapListings}
    /\ pc = [r \in Runs |-> "start"]
    /\ vi = [r \in Runs |-> 0]
    /\ si = [r \in Runs |-> 0]
    /\ resource_group_name = [r \in Runs |-> None]
    /\ entity = [r \in Runs |-> None]
    /\ status = [r \in Runs |-> 0]
    /\ calls = [r \in Runs |-> <<>>]
    /\ errors = [r \in Runs |-> <<>>]
    /\ storeAtStart = [r \in Runs |-> None]
    /\ storeAtEnd = [r \in Runs |-> None]
    /\ written = [r \in Runs |-> <<>>]

SpecOverlap == InitOverlap /\ [][Next]_vars

-----------------------------------------------------------------------------
(* Properties *)

\* The last call invocation r has issued, and whether this step issues one.
LastCall(r) == calls[r][Len(calls[r])]
Issues(r, op) ==
    /\ Len(calls'[r]) = Len(calls[r]) + 1
    /\ calls'[r][Len(calls'[r])].op = op
Result(r) == calls'[r][Len(calls'[r])].res
Arg(r) == calls'[r][Len(calls'[r])].arg

HasCall(r, op, res) == \E i \in 1..Len(calls[r]) : calls[r][i].op = op /\ calls[r][i].res = res
HasCallOn(r, op, k, res) ==
    \E i \in 1..Len(calls[r]) :
        calls[r][i].op = op /\ calls[r][i].arg = k /\ calls[r][i].res = res
WritesIssued(r) ==
    {i \in 1..Len(calls[r]) : calls[r][i].op \in {"update_entity", "create_entity"}}

\* The table holds the entity at its key, property by property.
Written(tbl, e) ==
    /\ KeyOf(e) \in DOMAIN tbl
    /\ \A a \in DOMAIN e : a \in DOMAIN tbl[KeyOf(e)] /\ tbl[KeyOf(e)][a] = e[a]

\* C1: fallback correctness of the per-subnet upsert.  Every update_entity is
\* issued for the current entity's key.  (a) On a key absent from the table the
\* update does not succeed; when it reports not-found the table is left as it
\* was, the invocation's next call is create_entity on the same key, and a
\* create_entity that succeeds leaves the entity written.  (b) On a key present
\* in the table the update never reports not-found; when it succeeds the
\* entity is written and no create_entity follows.  (c) When the update raises
\* anything else, the table is left as it was, the failure is logged with the
\* item's key, and no create_entity follows: create_entity is only ever issued
\* directly after a not-found update of the same key.
C1_FallbackStep(r) ==
    LET k == KeyOf(entity[r][1]) IN
    /\ Issues(r, "update_entity") =>
          /\ Arg(r) = k
          /\ k \notin DOMAIN store => Result(r) # "ok"
          /\ k \in DOMAIN store => Result(r) # "not_found"
          /\ Result(r) = "ok" =>
                /\ Written(store', entity[r][1])
                /\ pc'[r] # "create"
          /\ Result(r) = "not_found" =>
                /\ store' = store
                /\ pc'[r] = "create"
                /\ errors'[r] = errors[r]
          /\ Result(r) = "error" =>
                /\ store' = store
                /\ pc'[r] # "create"
                /\ Len(errors'[r]) = Len(errors[r]) + 1
                /\ errors'[r][Len(errors'[r])].key = k
    /\ Issues(r, "create_entity") =>
          /\ Arg(r) = k
          /\ calls[r] # <<>>
          /\ LastCall(r) = Call("update_entity", k, "not_found")
          /\ Result(r) = "ok" => Written(store', entity[r][1])
    /\ (pc[r] = "create" /\ calls'[r] # calls[r]) => Issues(r, "create_entity")

C1_FallbackCorrectness == [][\A r \in Runs : C1_FallbackStep(r)]_vars

\* C1's case: the three outcomes of an update have all happened, the insert
\* after the not-found one succeeded.
C1_Witness ==
    /\ \E r \in Runs : \E i \in 1..(Len(calls[r]) - 1) :
           /\ calls[r][i].op = "update_entity" /\ calls[r][i].res = "not_found"
           /\ calls[r][i + 1] = Call("create_entity", calls[r][i].arg, "ok")
           /\ calls[r][i].arg \in DOMAIN store
    /\ \E r \in Runs : HasCall(r, "update_entity", "ok")
    /\ \E r \in Runs : HasCall(r, "update_entity", "error")

\* The shape /subscriptions/{s}/resourceGroups/{rg}/... of a network identifier.
WellFormed(id) ==
    /\ Len(split(id)) >= 5
    /\ split(id)[1] = <<>>
    /\ split(id)[2] = <<"subscriptions">>
    /\ split(id)[4] = <<"resourceGroups">>
    /\ split(id)[5] # <<>>

Positions(l) == 1..Len(l)
ItemsOfVnet(v) == {<<v.name, v.subnets[j].name>> : j \in Positions(v.subnets)}
Attempted(r, k) == \E res \in {"ok", "not_found", "error"} : HasCallOn(r, "update_entity", k, res)
Touches(r, name) ==
    \E i \in 1..Len(calls[r]) :
        /\ calls[r][i].op \in {"subnets.list", "update_entity", "create_entity"}
        /\ \E j \in 1..Len(calls[r][i].arg) : calls[r][i].arg[j] = name

AllWellFormed(l) == \A i \in Positions(l) : WellFormed(l[i].id)

\* C2: when the fallback insert fails for a subnet, the failure is reported for
\* that item and the run goes on: every subnet of every well-formed network
\* of the listing is still processed and the run ends with status 200.
C2_InsertFailureIsolated ==
    \A r \in Runs :
        (Ended(r) /\ AllWellFormed(listing[r]) /\ HasCall(r, "create_entity", "error")) =>
            /\ status[r] = 200
            /\ \A i \in Positions(listing[r]) :
                   WellFormed(listing[r][i].id) =>
                       \A k \in ItemsOfVnet(listing[r][i]) : Attempted(r, k)

\* C3: when listing the subnets fails for one network, the run still ends with
\* status 200 and the subnets of every other (well-formed) network, before and
\* after it, are in the table when the run ends.
C3_SubnetListingFailureIsolated ==
    \A r \in Runs :
        (Ended(r) /\ AllWellFormed(listing[r]) /\ HasCall(r, "subnets.list", "error")) =>
            /\ status[r] = 200
            /\ \A i \in Positions(listing[r]) :
                   LET v == listing[r][i] IN
                   (/\ WellFormed(v.id)
                    /\ ~HasCallOn(r, "subnets.list", <<ResourceGroupOf(v.id), v.name>>, "error"))
                       => \A k \in ItemsOfVnet(v) : k \in DOMAIN storeAtEnd[r][1]

\* C4: a network with a well-formed identifier has its subnets listed under the
\* resource group {rg} of the identifier; a network whose identifier lacks the
\* resourceGroups/{rg} segment is skipped: no call is made for it, nothing is
\* written under its name, the networks after it are processed and the run
\* ends with status 200.
C4_ResourceGroupDerivation ==
    \A r \in Runs :
        (Ended(r) /\ HasCall(r, "list_all", "ok") /\ faults = 0) =>
            \A i \in Positions(listing[r]) :
                LET v == listing[r][i] IN
                IF WellFormed(v.id)
                THEN /\ HasCallOn(r, "subnets.list", <<SegStr(split(v.id)[5]), v.name>>, "ok")
                     /\ \A k \in ItemsOfVnet(v) : Attempted(r, k)
                ELSE /\ ~Touches(r, v.name)
                     /\ \A k \in ItemsOfVnet(v) : k \notin DOMAIN storeAtEnd[r][1]
                     /\ status[r] = 200

\* C5: a run whose clients were built, whose table was resolved and whose
\* networks were listed ends with status 200, whatever failed afterwards;
\* status 500 is returned only when one of those three failed.
C5_TerminalOutcome ==
    \A r \in Runs :
        (pc[r] = "done" /\ AllWellFormed(listing[r])) =>
            /\ HasCall(r, "list_all", "ok") => status[r] = 200
            /\ status[r] = 500 => ~HasCall(r, "list_all", "ok")

\* The rows of a table without the instant they were built at.
Topology(tbl) ==
    [k \in DOMAIN tbl |-> [a \in DOMAIN tbl[k] \ {"timestamp"} |-> tbl[k][a]]]

FailureFree(r) ==
    /\ pc[r] = "done"
    /\ status[r] = 200
    /\ errors[r] = <<>>
    /\ \A i \in 1..Len(calls[r]) : calls[r][i].res # "error"

\* C6: idempotence across runs.  When two invocations in a row are shown the
\* same listing and nothing fails, the table after the second holds the rows
\* it held after the first, with the same keys and the same properties apart
\* from the timestamp, and the second invocation issues no create_entity: each
\* of its items is written by update_entity alone.
C6_Idempotence ==
    (/\ FailureFree(1) /\ FailureFree(2)
     /\ listing[1] = listing[2])
        => /\ Topology(storeAtEnd[2][1]) = Topology(storeAtEnd[1][1])
           /\ \A i \in 1..Len(calls[2]) : calls[2][i].op # "create_entity"
           /\ \A i \in Positions(listing[2]) :
                  \A k \in ItemsOfVnet(listing[2][i]) : HasCallOn(2, "update_entity", k, "ok")

\* C6's case: the first run inserted rows, the second ran over the same
\* listing and rewrote them, so that the two tables differ in their timestamps.
C6_Witness ==
    /\ FailureFree(1) /\ FailureFree(2)
    /\ listing[1] = listing[2]
    /\ HasCall(1, "create_entity", "ok")
    /\ HasCall(2, "update_entity", "ok")
    /\ storeAtEnd[2] # storeAtEnd[1]

\* The row at the key of an item carries the item's properties (the timestamp
\* aside), for the item of subnet j of network v.
HoldsItem(tbl, v, j) ==
    LET e == Entity(v, v.subnets[j], ResourceGroupOf(v.id), 1) IN
    /\ KeyOf(e) \in DOMAIN tbl
    /\ \A a \in DOMAIN e \ {"timestamp"} :
           a \in DOMAIN tbl[KeyOf(e)] /\ tbl[KeyOf(e)][a] = e[a]

\* C7: two overlapping invocations over the same listing and table, with no
\* failure of a service and the table already there: in every interleaving
\* both end with status 200 and the table holds the row of every item.
C7_OverlapTolerated ==
    (/\ overlapping
     /\ \A r \in Runs : Ended(r)
     /\ faults = 0
     /\ \A r \in Runs : ~HasCall(r, "create_table", "exists"))
        => /\ \A r \in Runs : status[r] = 200
           /\ \A r \in Runs : \A i \in Positions(listing[r]) :
                  \A j \in Positions(listing[r][i].subnets) :
                      HoldsItem(store, listing[r][i], j)

\* C8: a create_table that finds the table already created (another creator
\* won between the resolve and the create) counts as success: the run does
\* not end with status 500.
C8_TableRaceTolerated ==
    \A r \in Runs :
        (faults = 0 /\ HasCall(r, "create_table", "exists")) => status[r] # 500

\* C9: every invocation ends by returning a response with status 200 or 500;
\* a missing configuration value yields status 500, no error leaves main.
C9_AlwaysResponds ==
    \A r \in Runs :
        Ended(r) =>
            /\ pc[r] = "done"
            /\ status[r] \in {200, 500}
            /\ ~(ConfigVars \subseteq environ) => status[r] = 500

RECURSIVE SumSubnets(_)
SumSubnets(l) == IF l = <<>> THEN 0 ELSE Len(l[1].subnets) + SumSubnets(Tail(l))
ItemsOf(l) == UNION {ItemsOfVnet(l[i]) : i \in Positions(l)}

\* The items a run has produced: its update_entity calls, one per entity built.
Produced(r) == {i \in 1..Len(calls[r]) : calls[r][i].op = "update_entity"}

\* C11: a run over N networks with distinct names, network i having M_i
\* subnets with distinct names, produces exactly N + sum(M_i) items, one per
\* network and one per subnet, with pairwise distinct keys.  Stated of the runs
\* over well-formed networks in which nothing fails, where every network and
\* subnet of the listing has been gone through.
C11_ItemPerNetworkAndSubnet ==
    \A r \in Runs :
        (FailureFree(r) /\ AllWellFormed(listing[r])) =>
            /\ Cardinality(Produced(r)) = Len(listing[r]) + SumSubnets(listing[r])
            /\ \A i, j \in Produced(r) : calls[r][i].arg = calls[r][j].arg => i = j

\* C12: a run whose listing holds no network issues no update_entity and no
\* create_entity, logs no failure, and ends with status 200 leaving the table
\* as it found it.
C12_EmptyInput ==
    \A r \in Runs :
        (HasCall(r, "list_all", "ok") /\ listing[r] = <<>>) =>
            /\ WritesIssued(r) = {}
            /\ written[r] = <<>>
            /\ errors[r] = <<>>
            /\ status[r] \in {0, 200}
            /\ Ended(r) =>
                  /\ status[r] = 200
                  /\ storeAtEnd[r] = storeAtStart[r]

\* C12's case: a run over the empty listing has ended.
C12_Witness ==
    \E r \in Runs :
        /\ listing[r] = <<>>
        /\ HasCall(r, "list_all", "ok")
        /\ pc[r] = "done"
        /\ status[r] = 200

\* C13: no deletion.  Whatever the runs and whatever the listing each is shown,
\* a key present in the table stays present, and its row changes only when a
\* run whose listing holds that network and subnet updates it: the row of a
\* network or subnet that has left the source keeps its last written value.
C13_NoDeletion ==
    [][\A k \in DOMAIN store :
           /\ k \in DOMAIN store'
           /\ store'[k] # store[k] =>
                  \E r \in Runs :
                      /\ Issues(r, "update_entity")
                      /\ Arg(r) = k
                      /\ Result(r) = "ok"
                      /\ k \in ItemsOf(listing[r])]_vars

\* C13's case: the second run was shown a listing without a network the first
\* run had written, wrote its own rows, and the first run's row is still there
\* as written.
C13_Witness ==
    /\ pc[1] = "done" /\ pc[2] = "done"
    /\ written[2] # <<>>
    /\ \E k \in DOMAIN written[1] :
           /\ k \notin ItemsOf(listing[2])
           /\ k \in DOMAIN store
           /\ store[k] = storeAtEnd[1][1][k]
           /\ Written(store, written[1][k])

\* A run in which nothing failed but updates, with an error that is not a
\* not-found error.
OnlyUpdateFailures(r) ==
    /\ \A i \in 1..Len(calls[r]) :
           calls[r][i].res \in {"error", "exists"} => calls[r][i].op = "update_entity"
    /\ \A i \in Positions(listing[r]) : HasResourceGroupSegment(listing[r][i].id)

\* C14: an update that fails with an error other than not-found does not end
\* the run: no insert follows it and its exception is not the one a status 500
\* reports; the failure is logged with the item's key, and a run in which
\* nothing else fails lists every network, issues the update of every subnet,
\* writes every item whose update did not fail and ends with status 200.
C14_UpdateFailureIsolated ==
    \A r \in Runs :
        HasCall(r, "update_entity", "error") =>
            /\ LastCall(r) = Call("update_entity", LastCall(r).arg, "error") =>
                  /\ pc[r] # "create"
                  /\ status[r] = 500 =>
                         \E j \in 1..Len(errors[r]) :
                             errors[r][j].line = 110 /\ errors[r][j].msg = IndexError
            /\ \A i \in 1..Len(calls[r]) :
                   (calls[r][i].op = "update_entity" /\ calls[r][i].res = "error") =>
                       \E j \in 1..Len(errors[r]) :
                           errors[r][j].line = 100 /\ errors[r][j].key = calls[r][i].arg
            /\ (Ended(r) /\ OnlyUpdateFailures(r)) =>
                  /\ status[r] = 200
                  /\ \A i \in Positions(listing[r]) :
                         LET v == listing[r][i] IN
                         /\ HasCallOn(r, "subnets.list", <<ResourceGroupOf(v.id), v.name>>, "ok")
                         /\ \A k \in ItemsOfVnet(v) :
                                /\ Attempted(r, k)
                                /\ ~HasCallOn(r, "update_entity", k, "error")
                                       => k \in DOMAIN written[r]

\* C14's case: the update of the first subnet of the first of three networks
\* failed, and the run has ended after writing the subnets that followed.
C14_Witness ==
    \E r \in Runs :
        /\ Ended(r)
        /\ Len(listing[r]) = 3
        /\ HasCallOn(r, "update_entity",
                     <<listing[r][1].name, listing[r][1].subnets[1].name>>, "error")
        /\ <<listing[r][1].name, listing[r][1].subnets[2].name>> \in DOMAIN written[r]
        /\ <<listing[r][3].name, listing[r][3].subnets[1].name>> \in DOMAIN written[r]
        /\ status[r] = 200

\* The upsert of the current entity of invocation r has just succeeded: its
\* last call is an ok update_entity or an ok create_entity on the entity's key
\* and the run has not moved past the next loop step.
JustUpserted(r) ==
    /\ pc[r] = "for_subnet"
    /\ entity[r] # None
    /\ calls[r] # <<>>
    /\ LastCall(r).arg = KeyOf(entity[r][1])
    /\ LastCall(r).op \in {"update_entity", "create_entity"}
    /\ LastCall(r).res = "ok"

\* C15: after the upsert of an item has succeeded, the row at the item's key
\* equals the item exactly, whatever was stored there before: no property of
\* the previous row survives.
C15_RowEqualsItem ==
    \A r \in Runs :
        JustUpserted(r) => /\ KeyOf(entity[r][1]) \in DOMAIN store
                           /\ store[KeyOf(entity[r][1])] = entity[r][1]

StoreOps == {"update_entity", "create_entity"}

\* C16: within one run at most one update and at most one insert are issued
\* for a key, an insert directly follows the update of the same key that found
\* no row, and no store call is issued again after it failed.
C16_SinglePass ==
    \A r \in Runs :
        /\ \A i, j \in DOMAIN calls[r] :
               (/\ i < j
                /\ calls[r][i].op \in StoreOps
                /\ calls[r][i].op = calls[r][j].op)
                   => calls[r][i].arg # calls[r][j].arg
        /\ \A j \in DOMAIN calls[r] :
               calls[r][j].op = "create_entity"
                   => /\ j > 1
                      /\ calls[r][j - 1].op = "update_entity"
                      /\ calls[r][j - 1].arg = calls[r][j].arg
                      /\ calls[r][j - 1].res = "not_found"

\* A run went on past an update that failed for another reason than a missing
\* row, inserted an item whose update found no row, and completed.
C16_Witness ==
    \E r \in Runs :
        /\ status[r] = 200
        /\ \E i, j \in DOMAIN calls[r] :
               /\ i < j
               /\ calls[r][i].op = "update_entity"
               /\ calls[r][i].res = "error"
               /\ calls[r][j].op = "create_entity"
               /\ calls[r][j].res = "ok"

\* C17: when a run ends with status 500 after it has written items, every row
\* it wrote is in the table as the run leaves it, and holds every property of
\* the item with the value written: nothing is rolled back.
C17_NoRollback ==
    \A r \in Runs :
        (status[r] = 500 /\ storeAtEnd[r] # None)
            => \A k \in DOMAIN written[r] : Written(storeAtEnd[r][1], written[r][k])

\* A run ended with status 500 after it had updated one row and inserted
\* another.
C17_Witness ==
    \E r \in Runs :
        /\ status[r] = 500
        /\ \E i, j \in DOMAIN calls[r] :
               /\ calls[r][i].op = "update_entity"
               /\ calls[r][i].res = "ok"
               /\ calls[r][j].op = "create_entity"
               /\ calls[r][j].res = "ok"
               /\ calls[r][i].arg \in DOMAIN written[r]
               /\ calls[r][j].arg \in DOMAIN written[r]

\* The order the listing prescribes: for each network in listing order, the
\* listing of its subnets (<<network>>) and then its items (<<network, subnet>>)
\* in subnet order.
RECURSIVE Schedule(_)
Schedule(l) ==
    IF l = <<>>
    THEN <<>>
    ELSE <<<<l[1].name>>>>
             \o [j \in 1..Len(l[1].subnets) |-> <<l[1].name, l[1].subnets[j].name>>]
             \o Schedule(Tail(l))

\* What a run has gone through so far: its subnet listings and the first store
\* call of each item, in the order they were issued.
IsListingOrUpdate(c) == c.op \in {"subnets.list", "update_entity"}
Progress(r) ==
    LET u == SelectSeq(calls[r], IsListingOrUpdate) IN
    [i \in 1..Len(u) |-> IF u[i].op = "subnets.list" THEN <<u[i].arg[2]>> ELSE u[i].arg]

\* C18: a run issues one call at a time, each logged with its result before
\* the next is issued, and in source order: what it has gone through is an
\* initial part of the listing's schedule (networks in listing order, the
\* subnets of a network listed after every store call of the network before,
\* items in subnet order), and an insert directly follows the update of the
\* same item.
C18_SourceOrder ==
    \A r \in Runs :
        /\ Len(Progress(r)) <= Len(Schedule(listing[r]))
        /\ \A i \in 1..Len(Progress(r)) : Progress(r)[i] = Schedule(listing[r])[i]
        /\ \A j \in DOMAIN calls[r] :
               calls[r][j].op = "create_entity"
                   => /\ j > 1
                      /\ calls[r][j - 1].op = "update_entity"
                      /\ calls[r][j - 1].arg = calls[r][j].arg

\* A run went through a whole listing of several networks, one of them with
\* several subnets.
C18_Witness ==
    \E r \in Runs :
        /\ status[r] = 200
        /\ Len(listing[r]) >= 2
        /\ \E i \in Positions(listing[r]) : Len(listing[r][i].subnets) >= 2
        /\ Len(Progress(r)) = Len(Schedule(listing[r]))
        /\ HasCall(r, "create_entity", "ok")

\* The network declares no address space: none at all, or no prefix list, or
\* an empty one.
DeclaresNoAddressSpace(v) ==
    \/ v.address_space = None
    \/ v.address_space[1].address_prefixes = None
    \/ v.address_space[1].address_prefixes[1] = <<>>

\* The run holds the item it has just built for a subnet of its current network.
HoldsBuiltItem(r) == pc[r] \in {"update", "create"} /\ entity[r] # None

\* C19: building the item of a subnet does not fail, whatever the network's
\* address space: the run goes on to the item's update.  The item has the
\* property vnetAddressSpace: the empty string when the network declares no
\* address space, the first prefix of the address space otherwise.
C19_MissingAddressSpace ==
    \A r \in Runs :
        HoldsBuiltItem(r) =>
            LET v == CurVnet(r)
                e == entity[r][1] IN
            /\ status[r] = 0
            /\ e.vnetName = v.name
            /\ "vnetAddressSpace" \in DOMAIN e
            /\ IF DeclaresNoAddressSpace(v)
               THEN e.vnetAddressSpace = ""
               ELSE e.vnetAddressSpace = Head(v.address_space[1].address_prefixes[1])

\* A run has built items for a network without an address space, for one with
\* an empty prefix list and for one with two prefixes.
C19_Witness ==
    \E r \in Runs :
        /\ HoldsBuiltItem(r)
        /\ CurVnet(r).address_space # None
        /\ CurVnet(r).address_space[1].address_prefixes = Some(<<>>)
        /\ \E k \in DOMAIN written[r] : written[r][k].vnetAddressSpace = ""
        /\ \E k \in DOMAIN written[r] : written[r][k].vnetAddressSpace = "10.1.0.0/16"

====
